---- MODULE Spec2Model ----
(***************************************************************************)
(* A model of the data converter (python/data_converter.py) and of the     *)
(* pyproject tool merger (update_pyproject_tools.py).                      *)
(*                                                                         *)
(* Strings are sequences of one-character strings.  A parsed value is a    *)
(* tagged record: Str, Int, Bool, Null, List (a sequence of values) or     *)
(* Dict (keys in insertion order, with the values beside them).            *)
(***************************************************************************)
EXTENDS Naturals, Sequences, FiniteSets

VARIABLES
    \* one run of main() of data_converter.py
    pc,             \* the stage about to run
    mode,           \* args.mode, a sequence of word atoms
    input_file,     \* the file at args.input_file: whether it is a file, its text
    output_file,    \* args.output_file ("" when absent)
    from_fmt, to_fmt, content, data, output,    \* sub_main's locals
    error,          \* the exception raised, and the call that raised it
    dest,           \* the output file
    stdout,         \* what was printed
    calls,          \* every function called so far, in order
    \* the pure functions applied to one value
    vpc, value, cleaned, recleaned, written, reread,
    \* one run of main() of update_pyproject_tools.py
    tpc,            \* where the run is
    argv,           \* <<global path, project path>>
    files,          \* each path's file: whether it exists, its tables
    files0,         \* the files as the run found them
    writes,         \* the paths opened for writing, in order
    exit_code

run_vars == <<pc, mode, input_file, output_file, from_fmt, to_fmt, content, data,
              output, error, dest, stdout, calls>>
value_vars == <<vpc, value, cleaned, recleaned, written, reread>>
toml_vars == <<tpc, argv, files, files0, writes, exit_code>>
vars == <<run_vars, value_vars, toml_vars>>

\* ------------------------------------------------------------------ bounds
MaxStrLen == 3
MaxDepth == 2
MaxModeLen == 4

\* --------------------------------------------------------------- constants
MODE_SEPARATOR == "2"
EXPECTED_PARTS == 2

\* ----------------------------------------------------------------- strings
NL == "\n"
Whitespace == {" ", "\t", "\r", NL}
Chars == {"a"} \cup Whitespace

RECURSIVE StringsUpTo(_)
StringsUpTo(n) ==
    IF n = 0 THEN {<<>>}
    ELSE LET S == StringsUpTo(n - 1)
         IN S \cup {Append(s, c) : s \in {x \in S : Len(x) = n - 1}, c \in Chars}

Strings == StringsUpTo(MaxStrLen)

\* str.rstrip(chars): drop the longest suffix made of characters of `chars`.
RECURSIVE rstrip(_, _)
rstrip(s, chars) ==
    IF Len(s) > 0 /\ s[Len(s)] \in chars
    THEN rstrip(SubSeq(s, 1, Len(s) - 1), chars)
    ELSE s

\* str.split(sep) for a one-character separator: always at least one part.
RECURSIVE split(_, _)
split(s, sep) ==
    IF \A i \in 1..Len(s) : s[i] # sep THEN <<s>>
    ELSE LET i == CHOOSE j \in 1..Len(s) :
                      s[j] = sep /\ \A k \in 1..(j - 1) : s[k] # sep
         IN <<SubSeq(s, 1, i - 1)>> \o split(SubSeq(s, i + 1, Len(s)), sep)

\* sep.join(parts)
RECURSIVE join(_, _)
join(sep, parts) ==
    IF Len(parts) = 0 THEN <<>>
    ELSE IF Len(parts) = 1 THEN parts[1]
    ELSE parts[1] \o <<sep>> \o join(sep, Tail(parts))

\* ------------------------------------------------------------------ values
Str(s) == [t |-> "str", s |-> s]
Int(n) == [t |-> "int", n |-> n]
Bool(b) == [t |-> "bool", b |-> b]
Null == [t |-> "null"]
List(items) == [t |-> "list", items |-> items]
Dict(keys, vals) == [t |-> "dict", keys |-> keys, vals |-> vals]

NoValue == [t |-> "none"]

\* Strings that read as another type when written plainly.
TypedWords == {<<"0">>, <<"1">>, <<"true">>, <<"false">>, <<"null">>}

Leaves ==
    {Str(s) : s \in Strings \cup TypedWords}
        \cup {Int(0), Int(1), Bool(TRUE), Bool(FALSE), Null}

\* Values of nesting depth at most d: a leaf, or a list or a mapping around
\* a value one level shallower.
RECURSIVE Values(_)
Values(d) ==
    IF d = 0 THEN Leaves
    ELSE LET V == Values(d - 1)
         IN V \cup {List(<<>>), Dict(<<>>, <<>>)}
              \cup {List(<<v>>) : v \in V}
              \cup {List(<<Str(<<"a", " ">>), v>>) : v \in V}
              \cup {Dict(<<"k">>, <<v>>) : v \in V}
              \cup {Dict(<<"k", "j">>, <<v, Str(<<" ", NL>>)>>) : v \in V}

\* ----------------------------------------------------- clean_data_for_yaml
\* The string branch: lines 112-114.
clean_str_no_final_rstrip(s) ==
    LET lines == split(rstrip(s, {NL}), NL)
        cleaned_lines == [i \in 1..Len(lines) |-> rstrip(lines[i], Whitespace)]
    IN join(NL, cleaned_lines)

\* line.strip() in place of line.rstrip()
clean_str_strip_lines(s) ==
    LET lines == split(rstrip(s, {NL}), NL)
        strip_line(l) ==
            LET r == rstrip(l, Whitespace)
                first == IF \A i \in 1..Len(r) : r[i] \in Whitespace THEN Len(r) + 1
                         ELSE CHOOSE i \in 1..Len(r) :
                                  r[i] \notin Whitespace
                                      /\ \A k \in 1..(i - 1) : r[k] \in Whitespace
            IN SubSeq(r, first, Len(r))
        cleaned_lines == [i \in 1..Len(lines) |-> strip_line(lines[i])]
    IN rstrip(join(NL, cleaned_lines), Whitespace)

clean_str(s) ==
    LET lines == split(rstrip(s, {NL}), NL)
        cleaned_lines == [i \in 1..Len(lines) |-> rstrip(lines[i], Whitespace)]
    IN rstrip(join(NL, cleaned_lines), Whitespace)

RECURSIVE clean_data_for_yaml(_)
clean_data_for_yaml(d) ==
    IF d.t = "dict"
    THEN Dict(d.keys,
              [i \in 1..Len(d.vals) |-> clean_data_for_yaml(d.vals[i])])
    ELSE IF d.t = "list"
    THEN List([i \in 1..Len(d.items) |-> clean_data_for_yaml(d.items[i])])
    ELSE IF d.t = "str"
    THEN Str(clean_str(d.s))
    ELSE d

\* -------------------------------------------------------------- documents
\* A document text is the sequence of the tokens written into it: the
\* brackets of a collection, a mapping key, and a scalar either plain or
\* double-quoted with its escapes, as the characters that are written.
Tok(k, s) == [k |-> k, s |-> s]

RECURSIVE Flatten(_)
Flatten(seqs) ==
    IF Len(seqs) = 0 THEN <<>> ELSE seqs[1] \o Flatten(Tail(seqs))

Digit(d) == <<"0", "1", "2", "3", "4", "5", "6", "7", "8", "9">>[d + 1]

\* str(n) of a natural number
RECURSIVE IntText(_)
IntText(n) ==
    IF n < 10 THEN <<Digit(n)>> ELSE Append(IntText(n \div 10), Digit(n % 10))

\* The escapes of a double-quoted scalar.
EscapeChar(c) ==
    IF c = NL THEN <<"\\", "n">>
    ELSE IF c = "\t" THEN <<"\\", "t">>
    ELSE IF c = "\r" THEN <<"\\", "r">>
    ELSE IF c = "\\" THEN <<"\\", "\\">>
    ELSE <<c>>

Escape(s) == Flatten([i \in 1..Len(s) |-> EscapeChar(s[i])])

RECURSIVE Unescape(_)
Unescape(s) ==
    IF Len(s) = 0 THEN <<>>
    ELSE IF s[1] = "\\" /\ Len(s) >= 2
    THEN LET c == IF s[2] = "n" THEN NL
                  ELSE IF s[2] = "t" THEN "\t"
                  ELSE IF s[2] = "r" THEN "\r"
                  ELSE s[2]
         IN <<c>> \o Unescape(SubSeq(s, 3, Len(s)))
    ELSE <<s[1]>> \o Unescape(Tail(s))

\* The scalar tokens of the values that are not strings.
ScalarText(d) ==
    IF d.t = "int" THEN IntText(d.n)
    ELSE IF d.t = "bool" THEN (IF d.b THEN <<"true">> ELSE <<"false">>)
    ELSE IF d.t = "object" THEN <<"<object>">>
    ELSE <<"null">>

\* Whether a native object (built by the full yaml Loader) is in the value.
RECURSIVE HasObject(_)
HasObject(d) ==
    IF d.t = "dict" THEN \E i \in 1..Len(d.vals) : HasObject(d.vals[i])
    ELSE IF d.t = "list" THEN \E i \in 1..Len(d.items) : HasObject(d.items[i])
    ELSE d.t = "object"

\* What a plain scalar is read as: the implicit types, else a string.
Resolve(s) ==
    IF s = <<"null">> THEN Null
    ELSE IF s = <<"true">> THEN Bool(TRUE)
    ELSE IF s = <<"false">> THEN Bool(FALSE)
    ELSE IF s = <<"0">> THEN Int(0)
    ELSE IF s = <<"1">> THEN Int(1)
    ELSE Str(s)

\* The order yaml.dump sorts mapping keys in (sort_keys defaults to true).
KeyOrder == <<"j", "k">>

SortedIndexes(keys) ==
    LET pos(k) == CHOOSE i \in 1..Len(keys) : keys[i] = k
        present == SelectSeq(KeyOrder, LAMBDA k : \E i \in 1..Len(keys) : keys[i] = k)
    IN [n \in 1..Len(present) |-> pos(present[n])]

\* yaml.dump: block style, keys sorted; a string is written plain when it
\* reads back as itself and double-quoted otherwise.
YamlPlainOk(s) ==
    /\ Len(s) > 0
    /\ \A i \in 1..Len(s) : s[i] \notin {NL, "\t", "\r", "\\"}
    /\ s[1] # " " /\ s[Len(s)] # " "
    /\ Resolve(s) = Str(s)

RECURSIVE yaml_dump(_)
yaml_dump(d) ==
    IF d.t = "dict"
    THEN LET idx == SortedIndexes(d.keys)
         IN <<Tok("map_start", <<>>)>>
              \o Flatten([n \in 1..Len(idx) |->
                    <<Tok("key", <<d.keys[idx[n]]>>)>>
                        \o yaml_dump(d.vals[idx[n]])])
              \o <<Tok("map_end", <<>>)>>
    ELSE IF d.t = "list"
    THEN <<Tok("seq_start", <<>>)>>
           \o Flatten([i \in 1..Len(d.items) |-> yaml_dump(d.items[i])])
           \o <<Tok("seq_end", <<>>)>>
    ELSE IF d.t = "str"
    THEN (IF YamlPlainOk(d.s)
          THEN <<Tok("plain", d.s)>>
          ELSE <<Tok("quoted", Escape(d.s))>>)
    ELSE IF d.t = "object" THEN <<Tok("tagged", d.s)>>
    ELSE <<Tok("plain", ScalarText(d))>>

\* json.dumps: keys in insertion order, every string double-quoted.
RECURSIVE json_dumps(_)
json_dumps(d) ==
    IF d.t = "dict"
    THEN <<Tok("map_start", <<>>)>>
           \o Flatten([i \in 1..Len(d.keys) |->
                 <<Tok("key", <<d.keys[i]>>)>> \o json_dumps(d.vals[i])])
           \o <<Tok("map_end", <<>>)>>
    ELSE IF d.t = "list"
    THEN <<Tok("seq_start", <<>>)>>
           \o Flatten([i \in 1..Len(d.items) |-> json_dumps(d.items[i])])
           \o <<Tok("seq_end", <<>>)>>
    ELSE IF d.t = "str"
    THEN <<Tok("quoted", Escape(d.s))>>
    ELSE <<Tok("literal", ScalarText(d))>>

\* ----------------------------------------------------------------- parsing
Parsed(v, next) == [ok |-> TRUE, v |-> v, next |-> next, err |-> "none"]
Failed(err) == [ok |-> FALSE, v |-> NoValue, next |-> 0, err |-> err]

\* dict[key] = v: a repeated key keeps its place and takes the last value.
DictPut(keys, vals, key, v) ==
    IF \E i \in 1..Len(keys) : keys[i] = key
    THEN <<keys, [i \in 1..Len(vals) |-> IF keys[i] = key THEN v ELSE vals[i]]>>
    ELSE <<Append(keys, key), Append(vals, v)>>

\* A plain scalar that matches the timestamp pattern and is no date: its
\* constructor raises ValueError, which is no YAMLError.
NotADate == <<"2001-02-30">>

\* The parser shared by the readers of the two bracketed formats.  `flavor`
\* is "yaml" (safe), "yaml_full" (the Loader that builds tagged objects) or
\* "json".
RECURSIVE ParseNode(_, _, _), ParseSeqItems(_, _, _, _), ParseMapItems(_, _, _, _, _)
ParseNode(flavor, toks, i) ==
    IF i > Len(toks) THEN Failed("syntax")
    ELSE LET tk == toks[i] IN
         IF tk.k = "seq_start" THEN ParseSeqItems(flavor, toks, i + 1, <<>>)
         ELSE IF tk.k = "map_start" THEN ParseMapItems(flavor, toks, i + 1, <<>>, <<>>)
         ELSE IF tk.k = "quoted" THEN Parsed(Str(Unescape(tk.s)), i + 1)
         ELSE IF tk.k = "plain" /\ flavor # "json" /\ tk.s = NotADate
         THEN Failed("ValueError")
         ELSE IF tk.k = "plain" /\ flavor # "json" THEN Parsed(Resolve(tk.s), i + 1)
         ELSE IF tk.k = "literal" /\ Resolve(tk.s) # Str(tk.s)
         THEN Parsed(Resolve(tk.s), i + 1)
         ELSE IF tk.k = "tagged" /\ flavor = "yaml" THEN Failed("constructor")
         ELSE IF tk.k = "tagged" /\ flavor = "yaml_full"
         THEN Parsed([t |-> "object", s |-> tk.s], i + 1)
         ELSE Failed("syntax")

ParseSeqItems(flavor, toks, i, acc) ==
    IF i > Len(toks) THEN Failed("syntax")
    ELSE IF toks[i].k = "seq_end" THEN Parsed(List(acc), i + 1)
    ELSE LET r == ParseNode(flavor, toks, i)
         IN IF r.ok THEN ParseSeqItems(flavor, toks, r.next, Append(acc, r.v))
            ELSE r

ParseMapItems(flavor, toks, i, keys, vals) ==
    IF i > Len(toks) THEN Failed("syntax")
    ELSE IF toks[i].k = "map_end" THEN Parsed(Dict(keys, vals), i + 1)
    ELSE IF toks[i].k = "key"
    THEN LET r == ParseNode(flavor, toks, i + 1)
         IN IF r.ok
            THEN LET kv == DictPut(keys, vals, toks[i].s[1], r.v)
                 IN ParseMapItems(flavor, toks, r.next, kv[1], kv[2])
            ELSE r
    ELSE Failed("syntax")

ParseDocument(flavor, toks) ==
    LET r == ParseNode(flavor, toks, 1)
    IN IF r.ok /\ r.next # Len(toks) + 1 THEN Failed("syntax") ELSE r

\* ------------------------------------------------------------------ markup
Written(text) == [ok |-> TRUE, text |-> text, err |-> "none"]
NotWritten(err) == [ok |-> FALSE, text |-> <<>>, err |-> err]

\* xmltodict's _emit: a list under a key becomes repeated elements, a
\* mapping becomes child elements, every other value becomes text.  Two
\* elements at depth 0 are refused.  (Keys here never start with "@" or equal
\* "#text", so no attribute or mixed content is written.)
RECURSIVE EmitValue(_, _, _), EmitItems(_, _, _, _), EmitOne(_, _, _), EmitChildren(_, _, _, _)
EmitValue(key, val, depth) ==
    EmitItems(key, IF val.t = "list" THEN val.items ELSE <<val>>, depth, 1)

EmitItems(key, items, depth, index) ==
    IF index > Len(items) THEN Written(<<>>)
    ELSE IF depth = 0 /\ index > 1 THEN NotWritten("ValueError")
    ELSE LET one == EmitOne(key, items[index], depth)
         IN IF ~one.ok THEN one
            ELSE LET rest == EmitItems(key, items, depth, index + 1)
                 IN IF rest.ok THEN Written(one.text \o rest.text) ELSE rest

EmitOne(key, v, depth) ==
    LET open == <<Tok("elem_start", <<key>>)>>
        close == <<Tok("elem_end", <<key>>)>>
        chars(s) == IF s = <<>> THEN <<>> ELSE <<Tok("text", s)>>
    IN IF v.t = "dict"
       THEN LET inner == EmitChildren(v.keys, v.vals, depth + 1, 1)
            IN IF inner.ok THEN Written(open \o inner.text \o close) ELSE inner
       ELSE IF v.t = "null" THEN Written(open \o close)
       ELSE IF v.t = "str" THEN Written(open \o chars(v.s) \o close)
       ELSE IF v.t = "list" THEN Written(open \o chars(<<"[...]">>) \o close)
       ELSE Written(open \o chars(ScalarText(v)) \o close)

EmitChildren(keys, vals, depth, i) ==
    IF i > Len(keys) THEN Written(<<>>)
    ELSE LET one == EmitValue(keys[i], vals[i], depth)
         IN IF ~one.ok THEN one
            ELSE LET rest == EmitChildren(keys, vals, depth, i + 1)
                 IN IF rest.ok THEN Written(one.text \o rest.text) ELSE rest

\* A root that is not a mapping of exactly one key, silently written as its
\* first entry.
xmltodict_unparse_first_key(d) ==
    IF d.t = "dict" /\ Len(d.keys) >= 1
    THEN LET body == EmitValue(d.keys[1], d.vals[1], 0)
         IN IF body.ok THEN Written(<<Tok("decl", <<>>)>> \o body.text) ELSE body
    ELSE Written(<<Tok("decl", <<>>)>>)

\* xmltodict.unparse(d): len(d) must be 1, and d.items() is read.
xmltodict_unparse(d) ==
    IF d.t \in {"int", "bool", "null"} THEN NotWritten("TypeError")
    ELSE IF d.t = "str"
    THEN (IF Len(d.s) # 1 THEN NotWritten("ValueError")
          ELSE NotWritten("AttributeError"))
    ELSE IF d.t = "list"
    THEN (IF Len(d.items) # 1 THEN NotWritten("ValueError")
          ELSE NotWritten("AttributeError"))
    ELSE IF Len(d.keys) # 1 THEN NotWritten("ValueError")
    ELSE LET body == EmitValue(d.keys[1], d.vals[1], 0)
         IN IF body.ok THEN Written(<<Tok("decl", <<>>)>> \o body.text) ELSE body

\* str.strip(): whitespace dropped at both ends.
RECURSIVE lstrip(_)
lstrip(s) ==
    IF Len(s) > 0 /\ s[1] \in Whitespace THEN lstrip(Tail(s)) ELSE s

strip(s) == lstrip(rstrip(s, Whitespace))

\* Repeated sibling elements fold into a list under their tag.
DictFold(keys, vals, key, v) ==
    IF \E i \in 1..Len(keys) : keys[i] = key
    THEN <<keys,
           [i \in 1..Len(vals) |->
               IF keys[i] # key THEN vals[i]
               ELSE IF vals[i].t = "list" THEN List(Append(vals[i].items, v))
               ELSE List(<<vals[i], v>>)]>>
    ELSE <<Append(keys, key), Append(vals, v)>>

\* xmltodict.parse: an element is a one-key mapping from its tag to its
\* content: nothing (None), its stripped text, or the mapping of its
\* children.
RECURSIVE ParseElem(_, _), ParseContent(_, _, _, _, _, _)
ParseElem(toks, i) ==
    IF i > Len(toks) \/ toks[i].k # "elem_start" THEN Failed("syntax")
    ELSE ParseContent(toks, i + 1, toks[i].s[1], <<>>, <<>>, <<>>)

ParseContent(toks, i, name, keys, vals, text) ==
    IF i > Len(toks) THEN Failed("syntax")
    ELSE LET tk == toks[i] IN
         IF tk.k = "text"
         THEN ParseContent(toks, i + 1, name, keys, vals, text \o tk.s)
         ELSE IF tk.k = "elem_start"
         THEN LET r == ParseElem(toks, i)
              IN IF r.ok
                 THEN LET kv == DictFold(keys, vals, r.v.keys[1], r.v.vals[1])
                      IN ParseContent(toks, r.next, name, kv[1], kv[2], text)
                 ELSE r
         ELSE IF tk.k = "elem_end" /\ tk.s = <<name>>
         THEN LET cdata == strip(text)
                  inner ==
                      IF keys = <<>>
                      THEN (IF cdata = <<>> THEN Null ELSE Str(cdata))
                      ELSE IF cdata = <<>> THEN Dict(keys, vals)
                      ELSE Dict(Append(keys, "#text"), Append(vals, Str(cdata)))
              IN Parsed(Dict(<<name>>, <<inner>>), i + 1)
         ELSE Failed("syntax")

xmltodict_parse(toks) ==
    LET start == IF Len(toks) > 0 /\ toks[1].k = "decl" THEN 2 ELSE 1
        r == ParseElem(toks, start)
    IN IF r.ok /\ r.next # Len(toks) + 1 THEN Failed("syntax") ELSE r

\* --------------------------------------------------- load_data, convert_data
Formats == {"xml", "json", "yaml"}

\* The result of load_data and the library calls it made, in order.
Loaded(r, made) ==
    [ok |-> r.ok, v |-> r.v,
     err |-> IF r.ok THEN "none" ELSE r.err, calls |-> made]

\* An empty document loads as None.
yaml_safe_load(text) ==
    LET r == ParseDocument("yaml", text)
    IN IF text = <<>> THEN Parsed(Null, 1)
       ELSE IF r.ok \/ r.err = "ValueError" THEN r ELSE Failed("YAMLError")

yaml_load(text) ==
    LET r == ParseDocument("yaml_full", text)
    IN IF text = <<>> THEN Parsed(Null, 1)
       ELSE IF r.ok \/ r.err = "ValueError" THEN r ELSE Failed("YAMLError")

json_loads(text) ==
    LET r == ParseDocument("json", text)
    IN IF r.ok THEN r ELSE Failed("JSONDecodeError")

\* The fallback taken on any exception of the safe parse (except Exception).
load_data_fallback_on_any_error(text, fmt) ==
    IF fmt = "xml"
    THEN LET r == xmltodict_parse(text)
         IN Loaded(IF r.ok THEN r ELSE Failed("ExpatError"), <<"xmltodict.parse">>)
    ELSE IF fmt = "json"
    THEN Loaded(json_loads(text), <<"json.loads">>)
    ELSE IF fmt = "yaml"
    THEN LET safe == yaml_safe_load(text)
         IN IF safe.ok
            THEN Loaded(safe, <<"yaml.safe_load">>)
            ELSE Loaded(yaml_load(text), <<"yaml.safe_load", "yaml.load">>)
    ELSE Loaded(Failed("Unexpected source format"), <<>>)

load_data(text, fmt) ==
    IF fmt = "xml"
    THEN LET r == xmltodict_parse(text)
         IN Loaded(IF r.ok THEN r ELSE Failed("ExpatError"), <<"xmltodict.parse">>)
    ELSE IF fmt = "json"
    THEN Loaded(json_loads(text), <<"json.loads">>)
    ELSE IF fmt = "yaml"
    THEN LET safe == yaml_safe_load(text)
         IN IF safe.ok \/ safe.err # "YAMLError"
            THEN Loaded(safe, <<"yaml.safe_load">>)
            ELSE Loaded(yaml_load(text), <<"yaml.safe_load", "yaml.load">>)
    ELSE Loaded(Failed("Unexpected source format"), <<>>)

\* The result of convert_data and the calls it made, in order.
Converted(r, made) ==
    [ok |-> r.ok, text |-> r.text, err |-> r.err, calls |-> made]

convert_data(d, fmt) ==
    IF fmt = "xml"
    THEN Converted(xmltodict_unparse(d), <<"xmltodict.unparse">>)
    ELSE IF fmt = "json"
    THEN Converted(IF HasObject(d) THEN NotWritten("TypeError")
                   ELSE Written(json_dumps(d)), <<"json.dumps">>)
    ELSE IF fmt = "yaml"
    THEN Converted(Written(yaml_dump(clean_data_for_yaml(d))),
                   <<"clean_data_for_yaml", "yaml.dump">>)
    ELSE Converted(NotWritten("Unexpected target format"), <<>>)

\* ------------------------------------------------------ update_pyproject_tools
\* A TOML document is the function from its top-level keys to their values;
\* the value of "tool" is the function from the tool names to their settings.
Paths == {"global_env/pyproject.toml", "my_project/pyproject.toml"}
ToolKeys == {"uv", "ruff", "mypy"}
Settings == {"A", "B"}
OtherSections == {"project", "dependency-groups"}

ToolTables == UNION {[K -> Settings] : K \in SUBSET ToolKeys}
EmptyTable == [k \in {} |-> "A"]

Documents ==
    {[sec \in O |-> "text"] : O \in SUBSET OtherSections}
        \cup {[sec \in O \cup {"tool"} |-> IF sec = "tool" THEN t ELSE "text"] :
                 O \in SUBSET OtherSections, t \in ToolTables}

NoFile == [exists |-> FALSE, doc |-> EmptyTable]
File(doc) == [exists |-> TRUE, doc |-> doc]

\* table[key] = v
Put(table, key, v) ==
    [k \in DOMAIN table \cup {key} |-> IF k = key THEN v ELSE table[k]]

\* The loop of lines 51-53 over the keys not yet copied.
RECURSIVE CopyTools(_, _, _)
CopyTools(project_tool, global_tool, keys) ==
    IF keys = {} THEN project_tool
    ELSE LET key == CHOOSE k \in keys : TRUE
             next == IF key # "uv" THEN Put(project_tool, key, global_tool[key])
                     ELSE project_tool
         IN CopyTools(next, global_tool, keys \ {key})

\* The loop without its test of the key.
merge_tools_with_uv(global_config, project_config) ==
    IF "tool" \in DOMAIN global_config
    THEN LET with_tool == IF "tool" \notin DOMAIN project_config
                          THEN Put(project_config, "tool", EmptyTable)
                          ELSE project_config
             copied == [k \in DOMAIN with_tool["tool"] \cup DOMAIN global_config["tool"] |->
                           IF k \in DOMAIN global_config["tool"]
                           THEN global_config["tool"][k] ELSE with_tool["tool"][k]]
         IN Put(with_tool, "tool", copied)
    ELSE project_config

\* Lines 47-53: the project's document after the update.
merge_tools(global_config, project_config) ==
    IF "tool" \in DOMAIN global_config
    THEN LET with_tool == IF "tool" \notin DOMAIN project_config
                          THEN Put(project_config, "tool", EmptyTable)
                          ELSE project_config
         IN Put(with_tool, "tool",
                CopyTools(with_tool["tool"], global_config["tool"],
                          DOMAIN global_config["tool"]))
    ELSE project_config

TomlIdle ==
    /\ tpc = "idle"
    /\ argv = <<>>
    /\ files = <<>>
    /\ files0 = <<>>
    /\ writes = <<>>
    /\ exit_code = 0

InitToml ==
    /\ tpc = "main"
    /\ argv \in Paths \X Paths
    /\ files \in [Paths -> {NoFile} \cup {File(d) : d \in Documents}]
    /\ files0 = files
    /\ writes = <<>>
    /\ exit_code = 0
    /\ pc = "idle"
    /\ mode = <<>>
    /\ input_file = [is_file |-> FALSE, text |-> <<>>]
    /\ output_file = ""
    /\ from_fmt = ""
    /\ to_fmt = ""
    /\ content = <<>>
    /\ data = NoValue
    /\ output = <<>>
    /\ error = [kind |-> "none", by |-> "none", token |-> <<>>]
    /\ dest = [written |-> FALSE, text |-> <<>>]
    /\ stdout = <<>>
    /\ calls = <<>>
    /\ vpc = "idle"
    /\ value = NoValue
    /\ cleaned = NoValue
    /\ recleaned = NoValue
    /\ written = NoValue
    /\ reread = NoValue

\* main, lines 72-81: both paths must exist.
CheckPaths ==
    /\ tpc = "main"
    /\ IF files[argv[1]].exists /\ files[argv[2]].exists
       THEN tpc' = "update" /\ exit_code' = exit_code
       ELSE tpc' = "exited" /\ exit_code' = 1
    /\ UNCHANGED <<argv, files, files0, writes>>
    /\ UNCHANGED <<run_vars, value_vars>>

\* update_pyproject_tools(global_path, project_path): both files loaded, the
\* tools copied, the project file saved.
UpdatePyprojectTools ==
    /\ tpc = "update"
    /\ LET global_config == files[argv[1]].doc
           project_config == files[argv[2]].doc
       IN files' = [files EXCEPT
                       ![argv[2]] = File(merge_tools(global_config, project_config))]
    /\ writes' = Append(writes, argv[2])
    /\ tpc' = "done"
    /\ UNCHANGED <<argv, files0, exit_code>>
    /\ UNCHANGED <<run_vars, value_vars>>

NextToml == CheckPaths \/ UpdatePyprojectTools

SpecToml == InitToml /\ [][NextToml]_vars

\* ---------------------------------------------------------------- parse_mode
\* A directive is a sequence of word atoms, read as their concatenation;
\* only the atom "2" holds the separator character.
Atoms == {"xml", "json", "yaml", "csv", MODE_SEPARATOR}

RECURSIVE ModesUpTo(_)
ModesUpTo(n) ==
    IF n = 0 THEN {<<>>}
    ELSE LET S == ModesUpTo(n - 1)
         IN S \cup {Append(m, a) : m \in {x \in S : Len(x) = n - 1}, a \in Atoms}

Modes == ModesUpTo(MaxModeLen)

supported_formats == <<"xml", "json", "yaml">>

\* part in supported_formats: the part is one atom, a supported one.
InSupported(part) ==
    Len(part) = 1 /\ \E i \in 1..Len(supported_formats) : supported_formats[i] = part[1]

ModePair(f, t) ==
    [ok |-> TRUE, from_fmt |-> f, to_fmt |-> t, msg |-> "none", token |-> <<>>]
ModeError(msg, token) ==
    [ok |-> FALSE, from_fmt |-> "", to_fmt |-> "", msg |-> msg, token |-> token]

\* The check of equal parts dropped.
parse_mode_no_identity_check(m) ==
    IF \A i \in 1..Len(m) : m[i] # MODE_SEPARATOR
    THEN ModeError("Invalid mode format: expected from2to", m)
    ELSE LET parts == split(m, MODE_SEPARATOR) IN
         IF Len(parts) # EXPECTED_PARTS
         THEN ModeError("Invalid mode format: expected exactly one separator", m)
         ELSE IF ~InSupported(parts[1])
         THEN ModeError("Unsupported source format", parts[1])
         ELSE IF ~InSupported(parts[2])
         THEN ModeError("Unsupported target format", parts[2])
         ELSE ModePair(parts[1][1], parts[2][1])

\* The check of equal parts made before the checks of supported parts.
parse_mode_identity_first(m) ==
    IF \A i \in 1..Len(m) : m[i] # MODE_SEPARATOR
    THEN ModeError("Invalid mode format: expected from2to", m)
    ELSE LET parts == split(m, MODE_SEPARATOR) IN
         IF Len(parts) # EXPECTED_PARTS
         THEN ModeError("Invalid mode format: expected exactly one separator", m)
         ELSE IF parts[1] = parts[2]
         THEN ModeError("Source and target formats are the same", parts[1])
         ELSE IF ~InSupported(parts[1])
         THEN ModeError("Unsupported source format", parts[1])
         ELSE IF ~InSupported(parts[2])
         THEN ModeError("Unsupported target format", parts[2])
         ELSE ModePair(parts[1][1], parts[2][1])

\* The pair returned in the other order.
parse_mode_swapped(m) ==
    IF \A i \in 1..Len(m) : m[i] # MODE_SEPARATOR
    THEN ModeError("Invalid mode format: expected from2to", m)
    ELSE LET parts == split(m, MODE_SEPARATOR) IN
         IF Len(parts) # EXPECTED_PARTS
         THEN ModeError("Invalid mode format: expected exactly one separator", m)
         ELSE IF ~InSupported(parts[1])
         THEN ModeError("Unsupported source format", parts[1])
         ELSE IF ~InSupported(parts[2])
         THEN ModeError("Unsupported target format", parts[2])
         ELSE IF parts[1] = parts[2]
         THEN ModeError("Source and target formats are the same", parts[1])
         ELSE ModePair(parts[2][1], parts[1][1])

parse_mode(m) ==
    IF \A i \in 1..Len(m) : m[i] # MODE_SEPARATOR
    THEN ModeError("Invalid mode format: expected from2to", m)
    ELSE LET parts == split(m, MODE_SEPARATOR) IN
         IF Len(parts) # EXPECTED_PARTS
         THEN ModeError("Invalid mode format: expected exactly one separator", m)
         ELSE IF ~InSupported(parts[1])
         THEN ModeError("Unsupported source format", parts[1])
         ELSE IF ~InSupported(parts[2])
         THEN ModeError("Unsupported target format", parts[2])
         ELSE IF parts[1] = parts[2]
         THEN ModeError("Source and target formats are the same", parts[1])
         ELSE ModePair(parts[1][1], parts[2][1])

\* ------------------------------------------------------------ one run of main
\* The documents an input file may hold: a few values written in each of
\* the formats, a document with a native-object tag, a plain scalar that
\* matches the timestamp pattern without being a date (its constructor raises
\* ValueError, which is no YAMLError), and a truncated document.
RunValues ==
    { Dict(<<"k">>, <<Str(<<"a", " ">>)>>),
      Dict(<<"k", "j">>, <<Int(1), List(<<Int(0), Str(<<"a">>)>>)>>),
      Dict(<<"k">>, <<List(<<Str(<<"a">>), Null>>)>>),
      List(<<Str(<<"a">>), Bool(TRUE)>>) }

TaggedDocument ==
    <<Tok("map_start", <<>>), Tok("key", <<"k">>),
      Tok("tagged", <<"python/object">>), Tok("map_end", <<>>)>>
BadDateDocument == <<Tok("plain", NotADate)>>
TruncatedDocument == <<Tok("map_start", <<>>), Tok("key", <<"k">>)>>

InputTexts ==
    {json_dumps(v) : v \in RunValues}
        \cup {yaml_dump(v) : v \in RunValues}
        \cup {xmltodict_unparse(Dict(<<"k">>, <<v>>)).text : v \in RunValues}
        \cup {TaggedDocument, BadDateDocument, TruncatedDocument}

InputFiles ==
    {[is_file |-> FALSE, text |-> <<>>]}
        \cup {[is_file |-> TRUE, text |-> t] : t \in InputTexts}

\* No path, a path that can be opened for writing, one that cannot.
OutputFiles == {"", "out", "missing_dir/out"}

NoError == [kind |-> "none", by |-> "none", token |-> <<>>]
Raised(kind, by, token) == [kind |-> kind, by |-> by, token |-> token]
NoText == <<>>
Untouched == [written |-> FALSE, text |-> <<>>]

Init ==
    /\ pc = "parse_mode"
    /\ mode \in Modes
    /\ input_file \in InputFiles
    /\ output_file \in OutputFiles
    /\ from_fmt = ""
    /\ to_fmt = ""
    /\ content = NoText
    /\ data = NoValue
    /\ output = NoText
    /\ error = NoError
    /\ dest = Untouched
    /\ stdout = <<>>
    /\ calls = <<>>
    /\ vpc = "idle"
    /\ value = NoValue
    /\ cleaned = NoValue
    /\ recleaned = NoValue
    /\ written = NoValue
    /\ reread = NoValue
    /\ TomlIdle

\* from_fmt, to_fmt = parse_mode(mode)
ParseMode ==
    /\ pc = "parse_mode"
    /\ calls' = Append(calls, "parse_mode")
    /\ LET r == parse_mode(mode) IN
         IF r.ok
         THEN /\ from_fmt' = r.from_fmt
              /\ to_fmt' = r.to_fmt
              /\ pc' = "read_input_file"
              /\ error' = error
         ELSE /\ error' = Raised(r.msg, "parse_mode", r.token)
              /\ pc' = "raised"
              /\ UNCHANGED <<from_fmt, to_fmt>>
    /\ UNCHANGED <<mode, input_file, output_file, content, data, output, dest, stdout>>
    /\ UNCHANGED <<value_vars, toml_vars>>

\* content = read_input_file(input_file)
ReadInputFile ==
    /\ pc = "read_input_file"
    /\ calls' = Append(calls, "read_input_file")
    /\ IF ~input_file.is_file
       THEN /\ error' = Raised("FileNotFoundError", "read_input_file", <<>>)
            /\ pc' = "raised"
            /\ content' = content
       ELSE /\ content' = input_file.text
            /\ pc' = "load_data"
            /\ error' = error
    /\ UNCHANGED <<mode, input_file, output_file, from_fmt, to_fmt, data, output,
                   dest, stdout>>
    /\ UNCHANGED <<value_vars, toml_vars>>

\* A failure of load_data swallowed: the run goes on with None.
LoadData_swallow_error ==
    /\ pc = "load_data"
    /\ LET r == load_data(content, from_fmt) IN
         /\ calls' = calls \o <<"load_data">> \o r.calls
         /\ data' = IF r.ok THEN r.v ELSE Null
         /\ pc' = "convert_data"
    /\ UNCHANGED <<mode, input_file, output_file, from_fmt, to_fmt, content, output,
                   error, dest, stdout>>
    /\ UNCHANGED <<value_vars, toml_vars>>

\* data = load_data(content, from_fmt)
LoadData ==
    /\ pc = "load_data"
    /\ LET r == load_data(content, from_fmt) IN
         /\ calls' = calls \o <<"load_data">> \o r.calls
         /\ IF r.ok
            THEN /\ data' = r.v
                 /\ pc' = "convert_data"
                 /\ error' = error
            ELSE /\ error' = Raised(r.err,
                                    IF r.calls = <<>> THEN "load_data"
                                    ELSE r.calls[Len(r.calls)], <<>>)
                 /\ pc' = "raised"
                 /\ data' = data
    /\ UNCHANGED <<mode, input_file, output_file, from_fmt, to_fmt, content, output,
                   dest, stdout>>
    /\ UNCHANGED <<value_vars, toml_vars>>

\* output = convert_data(data, to_fmt)
ConvertData ==
    /\ pc = "convert_data"
    /\ LET r == convert_data(data, to_fmt) IN
         /\ calls' = calls \o <<"convert_data">> \o r.calls
         /\ IF r.ok
            THEN /\ output' = r.text
                 /\ pc' = "write_output"
                 /\ error' = error
            ELSE /\ error' = Raised(r.err,
                                    IF r.calls = <<>> THEN "convert_data"
                                    ELSE r.calls[Len(r.calls)], <<>>)
                 /\ pc' = "raised"
                 /\ output' = output
    /\ UNCHANGED <<mode, input_file, output_file, from_fmt, to_fmt, content, data,
                   dest, stdout>>
    /\ UNCHANGED <<value_vars, toml_vars>>

\* write_output(output, output_file): the whole text to the file, or printed.
WriteOutput ==
    /\ pc = "write_output"
    /\ calls' = Append(calls, "write_output")
    /\ IF output_file = ""
       THEN /\ stdout' = Append(stdout, [what |-> "output", text |-> output])
            /\ pc' = "done"
            /\ UNCHANGED <<dest, error>>
       ELSE IF output_file = "out"
       THEN /\ dest' = [written |-> TRUE, text |-> output]
            /\ stdout' = Append(stdout, [what |-> "Conversion complete", text |-> <<>>])
            /\ pc' = "done"
            /\ error' = error
       ELSE /\ error' = Raised("OSError", "write_output", <<>>)
            /\ pc' = "raised"
            /\ UNCHANGED <<dest, stdout>>
    /\ UNCHANGED <<mode, input_file, output_file, from_fmt, to_fmt, content, data,
                   output>>
    /\ UNCHANGED <<value_vars, toml_vars>>

\* main's except branch: exit_with_error prints the error and exits with 1.
ExitWithError ==
    /\ pc = "raised"
    /\ stdout' = Append(stdout, [what |-> "Error raised by sub function", text |-> <<>>])
    /\ pc' = "exited"
    /\ UNCHANGED <<mode, input_file, output_file, from_fmt, to_fmt, content, data,
                   output, error, dest, calls>>
    /\ UNCHANGED <<value_vars, toml_vars>>

Next ==
    \/ ParseMode
    \/ ReadInputFile
    \/ LoadData
    \/ ConvertData
    \/ WriteOutput
    \/ ExitWithError

Spec == Init /\ [][Next]_vars

\* ------------------------------------------------- the functions, applied
InitValue ==
    /\ pc = "idle"
    /\ mode = <<>>
    /\ input_file = [is_file |-> FALSE, text |-> <<>>]
    /\ output_file = ""
    /\ from_fmt = ""
    /\ to_fmt = ""
    /\ content = NoText
    /\ data = NoValue
    /\ output = NoText
    /\ error = NoError
    /\ dest = Untouched
    /\ stdout = <<>>
    /\ calls = <<>>
    /\ TomlIdle
    /\ vpc = "start"
    /\ value \in Values(MaxDepth)
    /\ cleaned = NoValue
    /\ recleaned = NoValue
    /\ written = NoValue
    /\ reread = NoValue

ApplyClean ==
    /\ vpc = "start"
    /\ cleaned' = clean_data_for_yaml(value)
    /\ vpc' = "cleaned"
    /\ UNCHANGED <<value, recleaned, written, reread>>
    /\ UNCHANGED <<run_vars, toml_vars>>

ApplyCleanAgain ==
    /\ vpc = "cleaned"
    /\ recleaned' = clean_data_for_yaml(cleaned)
    /\ vpc' = "recleaned"
    /\ UNCHANGED <<value, cleaned, written, reread>>
    /\ UNCHANGED <<run_vars, toml_vars>>

ApplyConvert ==
    /\ vpc = "start"
    /\ \E fmt \in Formats :
          /\ written' = [fmt |-> fmt, out |-> convert_data(value, fmt)]
          /\ vpc' = "written"
    /\ UNCHANGED <<value, cleaned, recleaned, reread>>
    /\ UNCHANGED <<run_vars, toml_vars>>

\* The text just written, read back in the format it was written in.
ApplyLoad ==
    /\ vpc = "written"
    /\ written.out.ok
    /\ reread' = load_data(written.out.text, written.fmt)
    /\ vpc' = "reread"
    /\ UNCHANGED <<value, cleaned, recleaned, written>>
    /\ UNCHANGED <<run_vars, toml_vars>>

NextValue == ApplyClean \/ ApplyCleanAgain \/ ApplyConvert \/ ApplyLoad

SpecValue == InitValue /\ [][NextValue]_vars

\* ----------------------------------------------------------------- claims
\* Python's ==: mappings are equal whatever the order of their keys.
RECURSIVE SameValue(_, _)
SameValue(a, b) ==
    IF a.t # b.t THEN FALSE
    ELSE IF a.t = "dict"
    THEN /\ {a.keys[i] : i \in 1..Len(a.keys)} = {b.keys[i] : i \in 1..Len(b.keys)}
         /\ Len(a.keys) = Len(b.keys)
         /\ \A i \in 1..Len(a.keys) : \A j \in 1..Len(b.keys) :
                a.keys[i] = b.keys[j] => SameValue(a.vals[i], b.vals[j])
    ELSE IF a.t = "list"
    THEN /\ Len(a.items) = Len(b.items)
         /\ \A i \in 1..Len(a.items) : SameValue(a.items[i], b.items[i])
    ELSE a = b

\* The leaves of v paired with the leaves of c at the same places; where the
\* two differ in shape, the pair of the differing nodes.
RECURSIVE LeafPairs(_, _)
LeafPairs(v, c) ==
    IF v.t = "dict" /\ c.t = "dict" /\ v.keys = c.keys
    THEN UNION {LeafPairs(v.vals[i], c.vals[i]) : i \in 1..Len(v.vals)}
    ELSE IF v.t = "list" /\ c.t = "list" /\ Len(v.items) = Len(c.items)
    THEN UNION {LeafPairs(v.items[i], c.items[i]) : i \in 1..Len(v.items)}
    ELSE {<<v, c>>}

HasStr(v, s) == \E p \in LeafPairs(v, v) : p[1] = Str(s)

\* C3: a value written to yaml and read back equals the value, whatever its
\* strings end in.
C3_YamlRoundTrip ==
    (vpc = "reread" /\ written.fmt = "yaml")
        => (reread.ok /\ SameValue(reread.v, value))

\* C4: cleaning a cleaned value changes nothing.
C4_CleanIdempotent ==
    vpc = "recleaned" => recleaned = cleaned

C4_Witness ==
    /\ vpc = "recleaned"
    /\ value.t = "list"
    /\ HasStr(value, <<"a", NL, " ">>)
    /\ cleaned # value

\* The string C5 states: trailing newlines removed, each line stripped of
\* its trailing whitespace, the lines rejoined.
StatedClean(s) ==
    LET lines == split(rstrip(s, {NL}), NL)
    IN join(NL, [i \in 1..Len(lines) |-> rstrip(lines[i], Whitespace)])

\* C5 as stated: every string leaf becomes StatedClean of itself, every
\* other leaf and the shape stay.
C5_AsStated ==
    cleaned # NoValue =>
        \A p \in LeafPairs(value, cleaned) :
            IF p[1].t = "str"
            THEN p[2] = Str(StatedClean(p[1].s))
            ELSE p[2] = p[1]

\* The lines of c are the lines of s without their trailing whitespace, up
\* to the last line that is not empty then.
CleanedLines(s, c) ==
    LET L == split(s, NL)
        C == split(c, NL)
    IN /\ Len(C) <= Len(L)
       /\ \A i \in 1..Len(C) : C[i] = rstrip(L[i], Whitespace)
       /\ \A i \in (Len(C) + 1)..Len(L) : rstrip(L[i], Whitespace) = <<>>
       /\ (c = <<>> \/ C[Len(C)] # <<>>)

\* C5, amended: every string leaf becomes its lines stripped of trailing
\* whitespace with the trailing empty lines dropped; every other leaf and
\* the shape stay.
C5_CleanedLines ==
    cleaned # NoValue =>
        \A p \in LeafPairs(value, cleaned) :
            IF p[1].t = "str"
            THEN p[2].t = "str" /\ CleanedLines(p[1].s, p[2].s)
            ELSE p[2] = p[1]

C5_Witness ==
    /\ vpc = "cleaned"
    /\ value = Dict(<<"k">>, <<Str(<<"a", NL, " ">>)>>)
    /\ cleaned = Dict(<<"k">>, <<Str(<<"a">>)>>)

InvalidRoot(v) == v.t = "list" \/ (v.t = "dict" /\ Len(v.keys) # 1)

Called(f) == \E i \in 1..Len(calls) : calls[i] = f
Count(f) == Cardinality({i \in 1..Len(calls) : calls[i] = f})
Stopped == pc \in {"raised", "exited"}

FormatWords == {<<f>> : f \in Formats}

\* C1: parse_mode returns a pair exactly for source + "2" + target with two
\* different supported formats, and the pair is those two parts in order;
\* every other directive raises and sets no pair.
C1_PairIffWellFormed ==
    Called("parse_mode") =>
        LET wellformed ==
                \E f \in Formats : \E t \in Formats :
                    f # t /\ mode = <<f, MODE_SEPARATOR, t>>
            returned == error.by # "parse_mode"
        IN /\ returned <=> wellformed
           /\ returned => mode = <<from_fmt, MODE_SEPARATOR, to_fmt>>
           /\ ~returned => /\ Stopped
                           /\ error.kind # "none"
                           /\ from_fmt = "" /\ to_fmt = ""

C1_Witness ==
    /\ mode = <<"yaml", MODE_SEPARATOR, "xml">>
    /\ pc = "read_input_file"
    /\ from_fmt = "yaml"
    /\ to_fmt = "xml"

\* The failure kind a message of parse_mode stands for.
FailureKind(msg) ==
    IF msg \in {"Invalid mode format: expected from2to",
                "Invalid mode format: expected exactly one separator"}
    THEN "InvalidDirective"
    ELSE IF msg \in {"Unsupported source format", "Unsupported target format"}
    THEN "UnsupportedFormat"
    ELSE IF msg = "Source and target formats are the same"
    THEN "IdentityConversion"
    ELSE "other"

\* C2: a rejected directive fails as InvalidDirective (carrying the
\* directive) when it has no or several separators, as UnsupportedFormat
\* (naming the part, the source part first) when a part is unsupported, and
\* as IdentityConversion (naming the format) when the parts are equal and
\* supported.
C2_FailureKinds ==
    (Called("parse_mode") /\ error.by = "parse_mode") =>
        LET seps == {i \in 1..Len(mode) : mode[i] = MODE_SEPARATOR}
            at == CHOOSE i \in seps : TRUE
            source == SubSeq(mode, 1, at - 1)
            target == SubSeq(mode, at + 1, Len(mode))
            kind == FailureKind(error.kind)
        IN /\ IF Cardinality(seps) # 1
              THEN kind = "InvalidDirective" /\ error.token = mode
              ELSE IF source \notin FormatWords
              THEN /\ kind = "UnsupportedFormat"
                   /\ error.kind = "Unsupported source format"
                   /\ error.token = source
              ELSE IF target \notin FormatWords
              THEN /\ kind = "UnsupportedFormat"
                   /\ error.kind = "Unsupported target format"
                   /\ error.token = target
              ELSE /\ kind = "IdentityConversion"
                   /\ source = target
                   /\ error.token = source
           /\ mode = <<"xml", "json">> => kind = "InvalidDirective"
           /\ mode = <<"xml", MODE_SEPARATOR, "csv">> => kind = "UnsupportedFormat"
           /\ mode = <<"xml", MODE_SEPARATOR, "xml">> => kind = "IdentityConversion"
           /\ mode = <<"csv", MODE_SEPARATOR, "csv">> => kind = "UnsupportedFormat"

C2_Witness ==
    /\ mode = <<"csv", MODE_SEPARATOR, "csv">>
    /\ pc = "raised"
    /\ error = Raised("Unsupported source format", "parse_mode", <<"csv">>)

\* The stages of sub_main, in the order of its code.
Stages ==
    <<"parse_mode", "read_input_file", "load_data", "convert_data", "write_output">>
StagesCalled == SelectSeq(calls, LAMBDA c : \E i \in 1..Len(Stages) : Stages[i] = c)
OutputPrinted == \E i \in 1..Len(stdout) : stdout[i].what = "output"

\* C6: write_output is called at most once and only after the four stages
\* before it succeeded in order, with the whole output computed; nothing runs
\* twice; once a stage fails no later stage runs and neither the output file
\* nor an output line is written; an invalid directive stops the run before
\* the input is read.
C6_WriteOnceAfterAll ==
    /\ \A i \in 1..Len(Stages) : Count(Stages[i]) <= 1
    /\ StagesCalled = SubSeq(Stages, 1, Len(StagesCalled))
    /\ Called("write_output") =>
          /\ parse_mode(mode).ok
          /\ input_file.is_file
          /\ load_data(input_file.text, from_fmt).ok
          /\ convert_data(data, to_fmt).ok
          /\ output = convert_data(data, to_fmt).text
    /\ (dest.written \/ OutputPrinted) =>
          /\ pc = "done"
          /\ Called("write_output")
          /\ dest.written => dest.text = output
          /\ \A i \in 1..Len(stdout) :
                 stdout[i].what = "output" => stdout[i].text = output
    /\ Stopped =>
          /\ dest = Untouched
          /\ ~OutputPrinted
          /\ error.kind # "none"
          /\ pc = "raised" => stdout = <<>>
    /\ ~parse_mode(mode).ok => ~Called("read_input_file")

C6_Witness ==
    /\ pc = "done"
    /\ dest.written
    /\ dest.text = output
    /\ output # <<>>
    /\ from_fmt = "yaml"

\* C7: for a yaml source the safe parse runs first, and the full Loader runs
\* exactly when the safe parse raised a YAMLError; a successful safe parse
\* gives the result, and when both fail the Loader's error is the one
\* raised.  The Loader never runs for another source.
C7_SafeParseFirst ==
    Called("load_data") =>
        LET safe == yaml_safe_load(content)
            full == yaml_load(content)
        IN /\ Called("yaml.load") <=>
                  (from_fmt = "yaml" /\ ~safe.ok /\ safe.err = "YAMLError")
           /\ Called("yaml.safe_load") <=> from_fmt = "yaml"
           /\ Called("yaml.load") =>
                  \E i \in 1..(Len(calls) - 1) :
                      /\ calls[i] = "yaml.safe_load"
                      /\ calls[i + 1] = "yaml.load"
                      /\ \A j \in 1..(i - 1) : calls[j] # "yaml.load"
           /\ (from_fmt = "yaml" /\ safe.ok) => data = safe.v
           /\ (Called("yaml.load") /\ full.ok) => data = full.v
           /\ (Called("yaml.load") /\ ~full.ok) =>
                  /\ Stopped
                  /\ error.by = "yaml.load"
                  /\ error.kind = full.err

C7_Witness ==
    /\ from_fmt = "yaml"
    /\ content = TaggedDocument
    /\ Called("yaml.load")
    /\ pc = "convert_data"
    /\ data = Dict(<<"k">>, <<[t |-> "object", s |-> <<"python/object">>]>>)

\* The formats whose reader, and whose writer, ran.
ReadersRun ==
    {f \in Formats :
        \/ f = "xml" /\ Called("xmltodict.parse")
        \/ f = "json" /\ Called("json.loads")
        \/ f = "yaml" /\ (Called("yaml.safe_load") \/ Called("yaml.load"))}
WritersRun ==
    {f \in Formats :
        \/ f = "xml" /\ Called("xmltodict.unparse")
        \/ f = "json" /\ Called("json.dumps")
        \/ f = "yaml" /\ Called("yaml.dump")}

\* C10: load_data and convert_data are reached only with two different
\* supported formats, so neither raises its "Unexpected ... format" error;
\* a run that completes ran the reader of the source format and the writer
\* of the target format and no other.
C10_FormatsSupported ==
    /\ (pc \in {"load_data", "convert_data"} \/ Called("load_data")) =>
          /\ from_fmt \in Formats
          /\ to_fmt \in Formats
          /\ from_fmt # to_fmt
    /\ error.kind \notin {"Unexpected source format", "Unexpected target format"}
    /\ ReadersRun \subseteq {from_fmt}
    /\ WritersRun \subseteq {to_fmt}
    /\ pc = "done" =>
          /\ ReadersRun = {from_fmt}
          /\ WritersRun = {to_fmt}
          /\ Count("load_data") = 1
          /\ Count("convert_data") = 1

C10_Witness ==
    /\ pc = "done"
    /\ from_fmt = "xml"
    /\ to_fmt = "json"
    /\ ReadersRun = {"xml"}
    /\ WritersRun = {"json"}

\* ------------------------------------------- claims on update_pyproject_tools
Sections(path, fs) == fs[path].doc
ToolOf(doc) == IF "tool" \in DOMAIN doc THEN doc["tool"] ELSE EmptyTable

\* What C9 says of the project's tables after the update.
ProjectFrame ==
    LET before == Sections(argv[2], files0)
        after == Sections(argv[2], files)
        global_tool == ToolOf(Sections(argv[1], files0))
    IN /\ \A k \in DOMAIN global_tool \ {"uv"} :
             k \in DOMAIN ToolOf(after) /\ ToolOf(after)[k] = global_tool[k]
       /\ "uv" \in DOMAIN ToolOf(after) <=> "uv" \in DOMAIN ToolOf(before)
       /\ "uv" \in DOMAIN ToolOf(before) => ToolOf(after)["uv"] = ToolOf(before)["uv"]
       /\ \A k \in DOMAIN ToolOf(before) \ DOMAIN global_tool :
             k \in DOMAIN ToolOf(after) /\ ToolOf(after)[k] = ToolOf(before)[k]
       /\ DOMAIN ToolOf(after) \subseteq DOMAIN ToolOf(before) \cup DOMAIN global_tool
       /\ \A sec \in OtherSections :
             /\ sec \in DOMAIN after <=> sec \in DOMAIN before
             /\ sec \in DOMAIN before => after[sec] = before[sec]

\* C9 as stated: the frame above, and the global file is never written.
C9_AsStated ==
    tpc = "done" =>
        /\ ProjectFrame
        /\ \A i \in 1..Len(writes) : writes[i] # argv[1]

\* C9, amended: the frame above; the global file is written only when it is
\* the project file too, and what it holds never changes.
C9_ToolsMerged ==
    tpc = "done" =>
        /\ ProjectFrame
        /\ (\E i \in 1..Len(writes) : writes[i] = argv[1]) => argv[1] = argv[2]
        /\ files[argv[1]] = files0[argv[1]]
        /\ \A p \in Paths \ {argv[2]} : files[p] = files0[p]

C9_Witness ==
    /\ tpc = "done"
    /\ argv[1] # argv[2]
    /\ ToolOf(Sections(argv[1], files0)) = [k \in {"uv", "ruff"} |-> "A"]
    /\ ToolOf(Sections(argv[2], files0)) = [k \in {"ruff", "mypy"} |-> "B"]
    /\ ToolOf(Sections(argv[2], files)) = [k \in {"ruff", "mypy"} |->
                                               IF k = "ruff" THEN "A" ELSE "B"]
    /\ DOMAIN Sections(argv[2], files) = {"project", "tool"}

====
